---- MODULE Spec2Model ----
(***************************************************************************)
(* InvoxAI desktop backend (src-tauri): content-addressed ingestion into   *)
(* the `files` table and the storage directory, the file status commands,  *)
(* bulk delete, the storage sweep (clear_processed_files), the task table  *)
(* of sql.rs, the sheet CSV accumulator and xlsx export of commands.rs,    *)
(* and the xml_files commands of xml_operations.rs.                        *)
(*                                                                         *)
(* Conventions: Option<T> is a sequence of length <= 1 (<<>> is None,      *)
(* <<x>> is Some(x)); SQL NULL is <<>>; a uuid is a natural number drawn   *)
(* from a counter, so it is never reused.                                  *)
(***************************************************************************)
EXTENDS Integers, Sequences, FiniteSets, TLC

(***************************************************************************)
(* Bounds of the model.                                                    *)
(***************************************************************************)
\* how many uuids Uuid::new_v4 hands out in one behaviour
MaxIds == 2
\* how many rows the task table may hold
MaxTasks == 2
\* longest files_associated list given to a new task
MaxTaskFiles == 2

\* how many rows the sheets table may hold
MaxSheets == 2
\* longest rows argument of one append_sheet_rows call
MaxRows == 2
\* most records a sheet csv file may hold
MaxCsvRows == 2

\* callers whose commands may overlap in the interleaved specifications
Procs == {1, 2}

\* upload contents: byte vectors of different lengths
Buffers == {<<7>>, <<8, 9>>}

\* upload names, as their dot-separated components ("a.pdf", "scan")
FileNames == {<<"a", "pdf">>, <<"scan">>}

\* payloads attached by update_file_parsed_details
Payloads == {"{inv1}", "{inv2}"}

None == <<>>
Some(x) == <<x>>

VARIABLES
    files,        \* table files (db.rs CORE_SCHEMA): a set of rows
    store,        \* regular files of storage_dir(): file name -> bytes
    nextId,       \* the next uuid Uuid::new_v4 returns
    ing,          \* per caller: position inside persist_buffer
    task,         \* table task (sql.rs): a set of rows
    sheets,       \* table sheets (commands.rs load_sheet_metadata): a set of rows
    sheet_files,  \* storage_dir()/sheets: csv file name -> text records
    app,          \* per caller: position inside append_sheet_rows
    xml_files,    \* table xml_files (db.rs CORE_SCHEMA): a set of rows
    downloads,    \* dirs::download_dir(): file name -> workbook
    last          \* the command that returned most recently and what it returned

vars == <<files, store, nextId, ing, task, sheets, sheet_files, app, xml_files,
          downloads, last>>

(***************************************************************************)
(* FileStatus (file_operations.rs) and its string form.                    *)
(***************************************************************************)
FileStatus == {"Unprocessed", "Processing", "Processed", "Failed"}

as_str(status) == status

(***************************************************************************)
(* Content hash. blake3 is collision free at this scale: the model keeps   *)
(* the digest as a tagged copy of the input, so equal digests mean equal   *)
(* bytes.                                                                  *)
(***************************************************************************)
blake3_hex(buffer) == <<"blake3", buffer>>

(***************************************************************************)
(* Path::extension of a file name and the stored path persist_buffer       *)
(* derives from the id and that extension.                                 *)
(***************************************************************************)
extension(file_name) ==
    IF Len(file_name) > 1 THEN file_name[Len(file_name)] ELSE ""

stored_path(id, file_name) == [id |-> id, ext |-> extension(file_name)]

(***************************************************************************)
(* SELECT id FROM files WHERE hash_sha256 = ?1 LIMIT 1                     *)
(***************************************************************************)
check_duplicate_blind(rows, hash) == {}

check_duplicate(rows, hash) == {r.id : r \in {x \in rows : x.hash_sha256 = hash}}

(***************************************************************************)
(* fs::write(&stored_path, buffer): create or truncate.                    *)
(***************************************************************************)
fs_write(dir, path, buffer) ==
    [x \in DOMAIN dir \cup {path} |-> IF x = path THEN buffer ELSE dir[x]]

\* a removal that takes one path of paths only
fs_remove_one(dir, paths) ==
    IF paths = {} THEN dir
    ELSE [x \in DOMAIN dir \ {CHOOSE y \in paths : TRUE} |-> dir[x]]

fs_remove(dir, paths) == [x \in DOMAIN dir \ paths |-> dir[x]]

(***************************************************************************)
(* INSERT INTO files (id, hash_sha256, file_name, stored_path, size_bytes, *)
(* parsed_details): the columns the statement leaves out take the defaults *)
(* of CORE_SCHEMA (status 'Unprocessed', mime_type and processed_at NULL). *)
(***************************************************************************)
new_file_row(id, hash, file_name, path, size) ==
    [id |-> id, hash_sha256 |-> hash, file_name |-> file_name,
     stored_path |-> path, size_bytes |-> size, mime_type |-> None,
     status |-> "Unprocessed", parsed_details |-> None, processed_at |-> None]

\* id TEXT PRIMARY KEY, hash_sha256 TEXT NOT NULL UNIQUE
insert_allowed_no_unique(rows, row) == \A r \in rows : r.id # row.id

insert_allowed(rows, row) ==
    \A r \in rows : r.id # row.id /\ r.hash_sha256 # row.hash_sha256

(***************************************************************************)
(* The record of a returned command: its name, what it was called with     *)
(* (the file name of persist_buffer, <<sheet_id, rows>> of                 *)
(* append_sheet_rows; <<>> otherwise), Ok, Err or the DUPLICATE answer,    *)
(* the value returned (an id, a path, <<total_bytes, file_count>>), and    *)
(* for append_sheet_rows the number of existing rows its retain dropped.   *)
(***************************************************************************)
Ret(op, name, res, val) ==
    [op |-> op, name |-> name, res |-> res, val |-> val, dropped |-> 0]

IdleIng == [pc |-> "idle"]

(***************************************************************************)
(* persist_buffer, in the three places where it touches shared state:      *)
(* the duplicate lookup, the write of the bytes, the row insert.           *)
(***************************************************************************)
persist_buffer_lookup(p, file_name, buffer) ==
    /\ ing[p].pc = "idle"
    /\ LET existing == check_duplicate(files, blake3_hex(buffer)) IN
       IF existing # {}
       THEN /\ last' = Ret("persist_buffer", file_name, "DUPLICATE", Some(CHOOSE i \in existing : TRUE))
            /\ UNCHANGED <<files, store, nextId, ing>>
       ELSE /\ nextId <= MaxIds
            /\ ing' = [ing EXCEPT ![p] = [pc |-> "write", file_name |-> file_name,
                                           buffer |-> buffer, id |-> nextId]]
            /\ nextId' = nextId + 1
            /\ UNCHANGED <<files, store, last>>
    /\ UNCHANGED <<task, sheets, sheet_files, app, xml_files, downloads>>

persist_buffer_write(p) ==
    /\ ing[p].pc = "write"
    /\ store' = fs_write(store, stored_path(ing[p].id, ing[p].file_name), ing[p].buffer)
    /\ ing' = [ing EXCEPT ![p].pc = "insert"]
    /\ UNCHANGED <<files, nextId, last, task, sheets, sheet_files, app, xml_files, downloads>>

persist_buffer_insert(p) ==
    /\ ing[p].pc = "insert"
    /\ LET c == ing[p]
           row == new_file_row(c.id, blake3_hex(c.buffer), c.file_name,
                               stored_path(c.id, c.file_name), Len(c.buffer))
       IN IF insert_allowed(files, row)
          THEN /\ files' = files \cup {row}
               /\ last' = Ret("persist_buffer", c.file_name, "OK", Some(c.id))
          ELSE /\ files' = files
               /\ last' = Ret("persist_buffer", c.file_name, "ERR", None)
    /\ ing' = [ing EXCEPT ![p] = IdleIng]
    /\ UNCHANGED <<store, nextId, task, sheets, sheet_files, app, xml_files, downloads>>

(***************************************************************************)
(* import_data(file_name, bytes): persist_buffer run from its first line   *)
(* to its return with no other command in between.                         *)
(***************************************************************************)
import_data(file_name, buffer) ==
    /\ LET hash == blake3_hex(buffer)
           existing == check_duplicate(files, hash)
           path == stored_path(nextId, file_name)
           row == new_file_row(nextId, hash, file_name, path, Len(buffer))
       IN IF existing # {}
          THEN /\ last' = Ret("persist_buffer", file_name, "DUPLICATE", Some(CHOOSE i \in existing : TRUE))
               /\ UNCHANGED <<files, store, nextId>>
          ELSE /\ nextId <= MaxIds
               /\ nextId' = nextId + 1
               /\ store' = fs_write(store, path, buffer)
               /\ IF insert_allowed(files, row)
                  THEN /\ files' = files \cup {row}
                       /\ last' = Ret("persist_buffer", file_name, "OK", Some(nextId))
                  ELSE /\ files' = files
                       /\ last' = Ret("persist_buffer", file_name, "ERR", None)
    /\ UNCHANGED <<ing, task, sheets, sheet_files, app, xml_files, downloads>>

(***************************************************************************)
(* update_file_status(file_id, status), file_operations.rs.                *)
(***************************************************************************)
processed_at_always(status) == Some("now")

processed_at_for(status) == IF status = "Processed" THEN Some("now") ELSE None

update_file_status(file_id, status) ==
    /\ files' = {IF r.id = file_id
                 THEN [r EXCEPT !.status = as_str(status),
                                !.processed_at = processed_at_for(status)]
                 ELSE r : r \in files}
    /\ last' = Ret("update_file_status", <<>>, "OK", None)
    /\ UNCHANGED <<store, nextId, ing, task, sheets, sheet_files, app, xml_files, downloads>>

(***************************************************************************)
(* update_file_parsed_details(file_id, parsed_details).                    *)
(***************************************************************************)
update_file_parsed_details(file_id, parsed_details) ==
    /\ files' = {IF r.id = file_id
                 THEN [r EXCEPT !.parsed_details = Some(parsed_details)]
                 ELSE r : r \in files}
    /\ last' = Ret("update_file_parsed_details", <<>>, "OK", None)
    /\ UNCHANGED <<store, nextId, ing, task, sheets, sheet_files, app, xml_files, downloads>>

\* a delete that removes the stored files and leaves the rows
delete_files_disk_only(file_ids) ==
    /\ store' = fs_remove(store, {r.stored_path : r \in {x \in files : x.id \in file_ids}})
    /\ files' = files
    /\ last' = Ret("delete_files", <<>>, "OK", None)
    /\ UNCHANGED <<nextId, ing, task, sheets, sheet_files, app, xml_files, downloads>>

(***************************************************************************)
(* delete_files(file_ids): for every row whose id is listed, remove the    *)
(* stored file when it exists, then delete the row.                        *)
(***************************************************************************)
delete_files(file_ids) ==
    /\ IF file_ids = {}
       THEN UNCHANGED <<files, store>>
       ELSE LET files_to_delete == {r \in files : r.id \in file_ids} IN
            /\ store' = fs_remove(store, {r.stored_path : r \in files_to_delete})
            /\ files' = files \ files_to_delete
    /\ last' = Ret("delete_files", <<>>, "OK", None)
    /\ UNCHANGED <<nextId, ing, task, sheets, sheet_files, app, xml_files, downloads>>

(***************************************************************************)
(* compute_storage_stats: the regular files directly inside storage_dir(), *)
(* their number and the sum of their lengths (the sheets directory is not  *)
(* a regular file and is not counted).                                     *)
(***************************************************************************)
RECURSIVE total_len(_, _)
total_len(dir, names) ==
    IF names = {} THEN 0
    ELSE LET n == CHOOSE x \in names : TRUE
         IN Len(dir[n]) + total_len(dir, names \ {n})

compute_storage_stats(dir) == <<total_len(dir, DOMAIN dir), Cardinality(DOMAIN dir)>>

EmptyDir == [x \in {} |-> <<>>]

(***************************************************************************)
(* clear_processed_files: walks storage_dir() and removes every regular    *)
(* file and every directory in it (the sheets directory with its csv       *)
(* files), in the order read_dir yields them; the first removal that fails *)
(* ends the walk with Err. gone is the set of files removed, dir_gone      *)
(* tells whether the sheets directory was; the table files is not touched. *)
(* On Err the record of the return names the entry whose removal failed    *)
(* (<<path>> for a file, <<>> for the sheets directory): every other entry *)
(* still present was never reached by the walk.                            *)
(***************************************************************************)
clear_processed_files(gone, dir_gone) ==
    /\ gone \subseteq DOMAIN store
    /\ DOMAIN sheet_files = {} => dir_gone
    /\ store' = fs_remove(store, gone)
    /\ sheet_files' = IF dir_gone THEN EmptyDir ELSE sheet_files
    /\ IF gone = DOMAIN store /\ dir_gone
       THEN last' = Ret("clear_processed_files", <<>>, "OK",
                        compute_storage_stats(fs_remove(store, gone)))
       ELSE \/ \E failed \in DOMAIN store \ gone :
                 last' = Ret("clear_processed_files", <<failed>>, "ERR", None)
            \/ ~dir_gone /\ last' = Ret("clear_processed_files", <<>>, "ERR", None)
    /\ UNCHANGED <<files, nextId, ing, task, sheets, app, xml_files, downloads>>

(***************************************************************************)
(* Table task (sql.rs). No command of src-tauri writes it: rows are made   *)
(* and their status is set through the SQL plugin by the caller.           *)
(***************************************************************************)
TaskStatus == {"Pending", "Processing", "Completed"}

FileIds == 1..MaxIds

RECURSIVE distinct_lists(_, _)
distinct_lists(ids, n) ==
    IF n = 0 THEN {<<>>}
    ELSE LET shorter == distinct_lists(ids, n - 1)
         IN shorter \cup {Append(l, i) : l \in shorter, i \in ids}

TaskFileLists ==
    {l \in distinct_lists(FileIds, MaxTaskFiles) :
        \A i, j \in 1..Len(l) : l[i] = l[j] => i = j}

CreateTask(file_ids) ==
    /\ Cardinality(task) < MaxTasks
    /\ task' = task \cup {[id |-> Cardinality(task) + 1,
                            files_associated |-> file_ids,
                            file_count |-> Len(file_ids),
                            status |-> "Processing"]}
    /\ UNCHANGED <<files, store, nextId, ing, sheets, sheet_files, app, last, xml_files, downloads>>

SetTaskStatus(task_id, status) ==
    /\ \E t \in task : t.id = task_id /\ t.status # status
    /\ task' = {IF t.id = task_id THEN [t EXCEPT !.status = status] ELSE t : t \in task}
    /\ UNCHANGED <<files, store, nextId, ing, sheets, sheet_files, app, last, xml_files, downloads>>

(***************************************************************************)
(* sanitize_file_name(value, fallback), on strings given as sequences of   *)
(* characters: ASCII letters and digits are kept in lower case, a run of   *)
(* white space, '-', '_' and '.' becomes one '-', everything else is       *)
(* dropped; leading and trailing '-' are trimmed; an empty result is       *)
(* replaced by the fallback.                                               *)
(***************************************************************************)
AsciiLower == {"q", "s", "h", "e", "t"}
AsciiUpper == {"Q"}
AsciiDigit == {"1", "2"}

is_ascii_alphanumeric(ch) == ch \in AsciiLower \cup AsciiUpper \cup AsciiDigit

to_ascii_lowercase(ch) == IF ch = "Q" THEN "q" ELSE ch

is_separator(ch) == ch \in {" ", "-", "_", "."}

RECURSIVE sanitize_scan(_, _, _, _)
sanitize_scan(value, i, result, last_dash) ==
    IF i > Len(value) THEN result
    ELSE IF is_ascii_alphanumeric(value[i])
         THEN sanitize_scan(value, i + 1, Append(result, to_ascii_lowercase(value[i])), FALSE)
         ELSE IF is_separator(value[i]) /\ ~last_dash
              THEN sanitize_scan(value, i + 1, Append(result, "-"), TRUE)
              ELSE sanitize_scan(value, i + 1, result, last_dash)

RECURSIVE trim_start(_)
trim_start(str) ==
    IF str # <<>> /\ Head(str) = "-" THEN trim_start(Tail(str)) ELSE str

RECURSIVE trim_end(_)
trim_end(str) ==
    IF str # <<>> /\ str[Len(str)] = "-"
    THEN trim_end(SubSeq(str, 1, Len(str) - 1))
    ELSE str

trim_matches(str) == trim_end(trim_start(str))

sanitize_file_name(value, fallback) ==
    LET trimmed == trim_matches(sanitize_scan(value, 1, <<>>, FALSE))
    IN IF trimmed = <<>> THEN fallback ELSE trimmed

(***************************************************************************)
(* Sheet rows. SheetRowInput is what the caller sends, SheetCsvRow what    *)
(* the csv file holds. A csv record is the sequence of its nine text       *)
(* fields: the csv writer renders None as the empty field and the reader   *)
(* gives None for every empty field of an Option column.                   *)
(***************************************************************************)
headers ==
    <<"sheet_id", "file_id", "file_name", "seller_name", "invoice_number",
      "invoice_date", "seller_address", "items_json", "raw_payload">>

to_csv_row(sheet_id, row) ==
    [sheet_id |-> sheet_id, file_id |-> row.file_id, file_name |-> row.file_name,
     seller_name |-> row.seller_name, invoice_number |-> row.invoice_number,
     invoice_date |-> row.invoice_date, seller_address |-> row.seller_address,
     items_json |-> row.items_json, raw_payload |-> row.raw_payload]

opt_field(o) == IF o = None THEN "" ELSE o[1]

field_opt(text) == IF text = "" THEN None ELSE Some(text)

parse_i64(text) == CHOOSE n \in 0..(MaxSheets + 1) : ToString(n) = text

serialize(row) ==
    <<ToString(row.sheet_id), opt_field(row.file_id), opt_field(row.file_name),
      opt_field(row.seller_name), opt_field(row.invoice_number),
      opt_field(row.invoice_date), opt_field(row.seller_address),
      opt_field(row.items_json), row.raw_payload>>

deserialize(record) ==
    [sheet_id |-> parse_i64(record[1]), file_id |-> field_opt(record[2]),
     file_name |-> field_opt(record[3]), seller_name |-> field_opt(record[4]),
     invoice_number |-> field_opt(record[5]), invoice_date |-> field_opt(record[6]),
     seller_address |-> field_opt(record[7]), items_json |-> field_opt(record[8]),
     raw_payload |-> record[9]]

\* read_sheet_csv: no file gives no rows; the first record is the header
read_sheet_csv(dir, path) ==
    IF path \notin DOMAIN dir THEN <<>>
    ELSE [i \in 1..(Len(dir[path]) - 1) |-> deserialize(dir[path][i + 1])]

\* write_sheet_csv: the header, then one record per row, replacing the file
write_sheet_csv(dir, path, rows) ==
    fs_write(dir, path, <<headers>> \o [i \in 1..Len(rows) |-> serialize(rows[i])])

(***************************************************************************)
(* The rows append_sheet_rows writes back: the existing rows whose file_id *)
(* is None or is not among the incoming file ids, then every incoming row. *)
(***************************************************************************)
dedupe_ids_of(rows) ==
    {rows[i].file_id[1] : i \in {j \in 1..Len(rows) : rows[j].file_id # None}}

merge_rows_keep_all(existing_rows, sheet_id, rows) ==
    existing_rows \o [i \in 1..Len(rows) |-> to_csv_row(sheet_id, rows[i])]

\* a merge that puts the incoming rows before the retained ones
merge_rows_incoming_first(existing_rows, sheet_id, rows) ==
    LET dedupe_ids == dedupe_ids_of(rows)
        keep(row) == row.file_id = None \/ row.file_id[1] \notin dedupe_ids
    IN [i \in 1..Len(rows) |-> to_csv_row(sheet_id, rows[i])]
       \o SelectSeq(existing_rows, keep)

merge_rows(existing_rows, sheet_id, rows) ==
    LET dedupe_ids == dedupe_ids_of(rows)
        keep(row) == row.file_id = None \/ row.file_id[1] \notin dedupe_ids
        retained == IF dedupe_ids # {} THEN SelectSeq(existing_rows, keep)
                    ELSE existing_rows
    IN retained \o [i \in 1..Len(rows) |-> to_csv_row(sheet_id, rows[i])]

RetAppend(sheet_id, csv_path, existing_rows, rows, merged) ==
    [Ret("append_sheet_rows", <<sheet_id, rows>>, "OK", Some(csv_path))
        EXCEPT !.dropped = Len(existing_rows) + Len(rows) - Len(merged)]

\* the path of a sheet's csv file: the stored one, else one made from the label
csv_path_of(sheet) ==
    IF sheet.sheet_file_path # None THEN sheet.sheet_file_path[1]
    ELSE sanitize_file_name(sheet.sheet_name,
                            <<"s", "h", "e", "e", "t", "-", ToString(sheet.id)>>)
         \o <<".csv">>

\* UPDATE sheets SET sheet_file_path = ?1 WHERE id = ?2
set_sheet_file_path(rows, id, path) ==
    {IF r.id = id THEN [r EXCEPT !.sheet_file_path = Some(path)] ELSE r : r \in rows}

(***************************************************************************)
(* create_sheet_for_files(file_ids, sheet_name)                            *)
(***************************************************************************)
create_sheet_for_files(file_ids, sheet_name) ==
    /\ Cardinality(sheets) < MaxSheets
    /\ sheets' = sheets \cup
           {[id |-> Cardinality(sheets) + 1, sheet_name |-> sheet_name,
             sheet_path |-> sanitize_file_name(sheet_name, <<"untitled-sheet">>),
             sheet_file_path |-> None, file_ids |-> file_ids]}
    /\ last' = Ret("create_sheet_for_files", <<>>, "OK", Some(Cardinality(sheets) + 1))
    /\ UNCHANGED <<files, store, nextId, ing, task, sheet_files, app, xml_files, downloads>>

\* an append without the return on empty rows: the file is rewritten and the
\* path stored whatever rows holds
append_sheet_rows_always_writes(sheet_id, rows) ==
    /\ IF \A s \in sheets : s.id # sheet_id
       THEN /\ last' = Ret("append_sheet_rows", <<sheet_id, rows>>, "ERR", None)
            /\ UNCHANGED <<sheets, sheet_files>>
       ELSE LET sheet == CHOOSE s \in sheets : s.id = sheet_id
                csv_path == csv_path_of(sheet)
                existing_rows == read_sheet_csv(sheet_files, csv_path)
                merged == merge_rows(existing_rows, sheet_id, rows)
            IN /\ Len(merged) <= MaxCsvRows
               /\ sheet_files' = write_sheet_csv(sheet_files, csv_path, merged)
               /\ sheets' = set_sheet_file_path(sheets, sheet.id, csv_path)
               /\ last' = RetAppend(sheet_id, csv_path, existing_rows, rows, merged)
    /\ UNCHANGED <<files, store, nextId, ing, task, app, xml_files, downloads>>

(***************************************************************************)
(* append_sheet_rows(sheet_id, rows), from its first line to its return    *)
(* with no other command in between.                                       *)
(***************************************************************************)
append_sheet_rows(sheet_id, rows) ==
    /\ IF rows = <<>>
       THEN /\ last' = Ret("append_sheet_rows", <<sheet_id, rows>>, "OK", Some(<<>>))
            /\ UNCHANGED <<sheets, sheet_files>>
       ELSE IF \A s \in sheets : s.id # sheet_id
       THEN /\ last' = Ret("append_sheet_rows", <<sheet_id, rows>>, "ERR", None)
            /\ UNCHANGED <<sheets, sheet_files>>
       ELSE LET sheet == CHOOSE s \in sheets : s.id = sheet_id
                csv_path == csv_path_of(sheet)
                existing_rows == read_sheet_csv(sheet_files, csv_path)
                merged == merge_rows(existing_rows, sheet_id, rows)
            IN /\ Len(merged) <= MaxCsvRows
               /\ sheet_files' = write_sheet_csv(sheet_files, csv_path, merged)
               /\ sheets' = set_sheet_file_path(sheets, sheet.id, csv_path)
               /\ last' = RetAppend(sheet_id, csv_path, existing_rows, rows, merged)
    /\ UNCHANGED <<files, store, nextId, ing, task, app, xml_files, downloads>>

(***************************************************************************)
(* append_sheet_rows of overlapping callers, in its two halves: up to and  *)
(* including read_sheet_csv, and from the retain to the return.            *)
(***************************************************************************)
append_sheet_rows_read(p, sheet_id, rows) ==
    /\ app[p].pc = "idle"
    /\ rows # <<>>
    /\ \E sheet \in sheets :
          /\ sheet.id = sheet_id
          /\ app' = [app EXCEPT ![p] =
                 [pc |-> "write", sheet_id |-> sheet_id, rows |-> rows,
                  csv_path |-> csv_path_of(sheet),
                  existing_rows |-> read_sheet_csv(sheet_files, csv_path_of(sheet))]]
    /\ UNCHANGED <<files, store, nextId, ing, task, sheets, sheet_files, last, xml_files, downloads>>

append_sheet_rows_write(p) ==
    /\ app[p].pc = "write"
    /\ LET c == app[p]
           merged == merge_rows(c.existing_rows, c.sheet_id, c.rows)
       IN /\ Len(merged) <= MaxCsvRows
          /\ sheet_files' = write_sheet_csv(sheet_files, c.csv_path, merged)
          /\ sheets' = set_sheet_file_path(sheets, c.sheet_id, c.csv_path)
          /\ last' = RetAppend(c.sheet_id, c.csv_path, c.existing_rows, c.rows, merged)
    /\ app' = [app EXCEPT ![p] = [pc |-> "idle"]]
    /\ UNCHANGED <<files, store, nextId, ing, task, xml_files, downloads>>

(***************************************************************************)
(* Inputs of the sheet commands.                                           *)
(***************************************************************************)
SheetNames == {<<"Q", "1">>, <<"q", "1", "!">>, <<"!">>}

SheetFileLists == {<<"f1", "f2">>}

RowInput(file_id, seller_name) ==
    [file_id |-> file_id, file_name |-> Some("inv.pdf"), seller_name |-> seller_name,
     invoice_number |-> None, invoice_date |-> None, seller_address |-> Some(""),
     items_json |-> None, raw_payload |-> "{}"]

RowInputs ==
    {RowInput(Some("f1"), Some("acme")), RowInput(Some("f1"), Some("zeta")),
     RowInput(Some("f2"), Some("acme")), RowInput(None, Some("acme")),
     RowInput(Some(""), Some("acme"))}

RECURSIVE lists_upto(_, _)
lists_upto(S, n) ==
    IF n = 0 THEN {<<>>}
    ELSE LET shorter == lists_upto(S, n - 1)
         IN shorter \cup {Append(l, x) : l \in shorter, x \in S}

RowLists == lists_upto(RowInputs, MaxRows)

(***************************************************************************)
(* Table xml_files (xml_operations.rs). file_ids is JSON text: the tokens  *)
(* "[", the ids as strings separated by ",", and "]".                      *)
(***************************************************************************)
\* how many rows the xml_files table may hold
MaxXml == 2
\* longest file_ids argument of create_xml_for_files and append_xml_file
MaxXmlIds == 2

RECURSIVE json_items(_)
json_items(ids) ==
    IF ids = <<>> THEN <<>>
    ELSE IF Len(ids) = 1 THEN <<ToString(ids[1])>>
    ELSE <<ToString(ids[1]), ",">> \o json_items(Tail(ids))

\* serde_json::to_string(&Vec<String>)
to_json(ids) == <<"[">> \o json_items(ids) \o <<"]">>

parse_id(text) == CHOOSE n \in FileIds : ToString(n) = text

\* serde_json::from_str::<Vec<String>>
from_json(text) == [i \in 1..((Len(text) - 1) \div 2) |-> parse_id(text[2 * i])]

contains(ids, id) == \E i \in 1..Len(ids) : ids[i] = id

\* the count list_xml_files reports for a row
file_count_distinct(file_ids) == Cardinality({file_ids[i] : i \in 1..Len(file_ids)})

file_count_of(file_ids) == Len(file_ids)

(***************************************************************************)
(* create_xml_for_files(file_ids, xml_name): the list is stored as given.  *)
(***************************************************************************)
create_xml_for_files(file_ids, xml_name) ==
    /\ Cardinality(xml_files) < MaxXml
    /\ xml_files' = xml_files \cup
           {[id |-> Cardinality(xml_files) + 1, xml_name |-> xml_name,
             file_ids |-> to_json(file_ids),
             xml_path |-> sanitize_file_name(xml_name, <<"untitled-xml">>)]}
    /\ last' = Ret("create_xml_for_files", <<>>, "OK", Some(Cardinality(xml_files) + 1))
    /\ UNCHANGED <<files, store, nextId, ing, task, sheets, sheet_files, app, downloads>>

(***************************************************************************)
(* list_xml_files: one XmlFileRow per row, its file_count the length of    *)
(* the parsed file_ids.                                                    *)
(***************************************************************************)
xml_file_rows(rows) ==
    {[id |-> x.id, xml_name |-> x.xml_name,
      file_count |-> file_count_of(from_json(x.file_ids))] : x \in rows}

list_xml_files ==
    /\ last' = Ret("list_xml_files", <<>>, "OK", Some(xml_file_rows(xml_files)))
    /\ UNCHANGED <<files, store, nextId, ing, task, sheets, sheet_files, app,
                   xml_files, downloads>>

(***************************************************************************)
(* append_xml_file(xml_id, file_ids): pushes, in order, every id the list  *)
(* does not hold yet.                                                      *)
(***************************************************************************)
RECURSIVE push_new(_, _)
push_new(existing_ids, file_ids) ==
    IF file_ids = <<>> THEN existing_ids
    ELSE IF contains(existing_ids, Head(file_ids))
         THEN push_new(existing_ids, Tail(file_ids))
         ELSE push_new(Append(existing_ids, Head(file_ids)), Tail(file_ids))

append_xml_file(xml_id, file_ids) ==
    /\ IF \A x \in xml_files : x.id # xml_id
       THEN /\ last' = Ret("append_xml_file", <<xml_id, file_ids>>, "ERR",
                           Some("Query returned no rows"))
            /\ UNCHANGED xml_files
       ELSE LET x == CHOOSE y \in xml_files : y.id = xml_id
                existing_ids == from_json(x.file_ids)
                new_json == to_json(push_new(existing_ids, file_ids))
            IN /\ xml_files' = {IF y.id = xml_id THEN [y EXCEPT !.file_ids = new_json]
                                ELSE y : y \in xml_files}
               /\ last' = Ret("append_xml_file", <<xml_id, file_ids>>, "OK", None)
    /\ UNCHANGED <<files, store, nextId, ing, task, sheets, sheet_files, app, downloads>>

(***************************************************************************)
(* generate_xml_file(xml_id): SELECT ... FROM files WHERE id IN (file_ids) *)
(* yields every matching row once, in an order the statement does not fix; *)
(* each parsed_details that is not NULL is pushed, followed by "\n".       *)
(***************************************************************************)
select_files_all(rows, file_ids) == rows

select_files_in(rows, file_ids) == {r \in rows : contains(file_ids, r.id)}

RECURSIVE orderings(_)
orderings(S) ==
    IF S = {} THEN {<<>>}
    ELSE UNION {{<<x>> \o o : o \in orderings(S \ {x})} : x \in S}

RECURSIVE xml_content(_)
xml_content(rows) ==
    IF rows = <<>> THEN <<>>
    ELSE IF Head(rows).parsed_details # None
         THEN <<Head(rows).parsed_details[1], "\n">> \o xml_content(Tail(rows))
         ELSE xml_content(Tail(rows))

processed_file_count(rows) ==
    Cardinality({i \in 1..Len(rows) : rows[i].parsed_details # None})

generate_xml_file(xml_id) ==
    /\ IF \A x \in xml_files : x.id # xml_id
       THEN last' = Ret("generate_xml_file", <<xml_id>>, "ERR",
                        Some("XML file record not found."))
       ELSE LET x == CHOOSE y \in xml_files : y.id = xml_id
                file_ids == from_json(x.file_ids)
            IN IF file_ids = <<>>
               THEN last' = Ret("generate_xml_file", <<xml_id>>, "ERR",
                                Some("No files associated with this XML export."))
               ELSE \E rows \in orderings(select_files_in(files, file_ids)) :
                       IF processed_file_count(rows) = 0
                       THEN last' = Ret("generate_xml_file", <<xml_id>>, "ERR",
                                        Some("None of the files have been processed yet. Process files before generating XML."))
                       ELSE last' = Ret("generate_xml_file", <<xml_id>>, "OK",
                                        Some([content |-> xml_content(rows),
                                              file_count |-> processed_file_count(rows)]))
    /\ UNCHANGED <<files, store, nextId, ing, task, sheets, sheet_files, app,
                   xml_files, downloads>>

(***************************************************************************)
(* Inputs of the xml commands: lists of ids that may repeat an id and may  *)
(* name ids no row has.                                                    *)
(***************************************************************************)
XmlNames == {<<"Q", "1">>}

XmlIdLists == lists_upto(FileIds, MaxXmlIds)

(***************************************************************************)
(* Bulk status update and listing (file_operations.rs), and the commands   *)
(* of commands.rs that take the status as a String.                        *)
(***************************************************************************)
\* longest file_ids argument of update_files_status
MaxBulkIds == 2

\* status strings a caller of the String-typed commands may send
StatusStrings == FileStatus \cup {"Done"}

\* UPDATE files SET status = ?, processed_at = ? WHERE id IN (...)
bulk_update_head(rows, file_ids, status) ==
    {IF file_ids # <<>> /\ r.id = Head(file_ids)
     THEN [r EXCEPT !.status = status, !.processed_at = processed_at_for(status)]
     ELSE r : r \in rows}

bulk_update(rows, file_ids, status) ==
    {IF contains(file_ids, r.id)
     THEN [r EXCEPT !.status = status, !.processed_at = processed_at_for(status)]
     ELSE r : r \in rows}

\* a bulk update without the return on an empty list, whose statement then
\* has no WHERE clause
update_files_status_unfiltered(file_ids, status, ok) ==
    /\ IF ok
       THEN /\ files' = IF file_ids = <<>>
                        THEN {[r EXCEPT !.status = as_str(status),
                                        !.processed_at = processed_at_for(status)] : r \in files}
                        ELSE bulk_update(files, file_ids, as_str(status))
            /\ last' = Ret("update_files_status", <<file_ids, status>>, "OK", None)
       ELSE /\ files' = files
            /\ last' = Ret("update_files_status", <<file_ids, status>>, "ERR",
                           Some("database is locked"))
    /\ UNCHANGED <<store, nextId, ing, task, sheets, sheet_files, app, xml_files, downloads>>

(***************************************************************************)
(* update_files_status(file_ids, status): one UPDATE statement, which      *)
(* SQLite applies to every matching row or, when it fails (ok = FALSE), to *)
(* none.                                                                   *)
(***************************************************************************)
update_files_status(file_ids, status, ok) ==
    /\ IF file_ids = <<>>
       THEN /\ files' = files
            /\ last' = Ret("update_files_status", <<file_ids, status>>, "OK", None)
       ELSE IF ok
       THEN /\ files' = bulk_update(files, file_ids, as_str(status))
            /\ last' = Ret("update_files_status", <<file_ids, status>>, "OK", None)
       ELSE /\ files' = files
            /\ last' = Ret("update_files_status", <<file_ids, status>>, "ERR",
                           Some("database is locked"))
    /\ UNCHANGED <<store, nextId, ing, task, sheets, sheet_files, app, xml_files, downloads>>

(***************************************************************************)
(* commands.rs: update_file_status and update_files_status with            *)
(* status: String, stored as given.                                        *)
(***************************************************************************)
commands_update_file_status(file_id, status) ==
    /\ files' = bulk_update(files, <<file_id>>, status)
    /\ last' = Ret("commands::update_file_status", <<file_id, status>>, "OK", None)
    /\ UNCHANGED <<store, nextId, ing, task, sheets, sheet_files, app, xml_files, downloads>>

commands_update_files_status(file_ids, status, ok) ==
    /\ IF file_ids = <<>>
       THEN /\ files' = files
            /\ last' = Ret("commands::update_files_status", <<file_ids, status>>, "OK", None)
       ELSE IF ok
       THEN /\ files' = bulk_update(files, file_ids, status)
            /\ last' = Ret("commands::update_files_status", <<file_ids, status>>, "OK", None)
       ELSE /\ files' = files
            /\ last' = Ret("commands::update_files_status", <<file_ids, status>>, "ERR",
                           Some("database is locked"))
    /\ UNCHANGED <<store, nextId, ing, task, sheets, sheet_files, app, xml_files, downloads>>

(***************************************************************************)
(* list_files_paginated(query), for a query whose limit covers every row:  *)
(* the rows matching status_filter, the status column parsed with          *)
(* FileStatus::from_str and replaced by Unprocessed when that fails.       *)
(***************************************************************************)
from_str(s) == IF s \in FileStatus THEN <<"Ok", s>> ELSE <<"Err", "Invalid file status">>

unwrap_or(result, default) == IF result[1] = "Ok" THEN result[2] ELSE default

file_record(r) ==
    [id |-> r.id, file_name |-> r.file_name, stored_path |-> r.stored_path,
     size_bytes |-> r.size_bytes, mime_type |-> r.mime_type,
     status |-> unwrap_or(from_str(r.status), "Unprocessed"),
     parsed_details |-> r.parsed_details, processed_at |-> r.processed_at]

list_files_paginated(status_filter) ==
    /\ LET matching == {r \in files : status_filter = None \/ r.status = status_filter[1]}
       IN last' = Ret("list_files_paginated", <<status_filter>>, "OK",
                      Some([files |-> {file_record(r) : r \in matching},
                            total_count |-> Cardinality(matching)]))
    /\ UNCHANGED <<files, store, nextId, ing, task, sheets, sheet_files, app,
                   xml_files, downloads>>

BulkIdLists == lists_upto(FileIds, MaxBulkIds)

(***************************************************************************)
(* generate_sheet_xlsx(sheet_id), commands.rs: the checks made before      *)
(* anything is written, then the workbook saved in the Downloads           *)
(* directory under the sanitized sheet name.                               *)
(***************************************************************************)
sheet_export_error_none(sheet, dir) == None

sheet_export_error(sheet, dir) ==
    IF sheet.sheet_file_path = None
    THEN Some("This sheet does not have any stored data yet. Process files before downloading.")
    ELSE IF sheet.sheet_file_path[1] \notin DOMAIN dir
    THEN Some("The stored sheet data could not be located. Try processing files again.")
    ELSE IF read_sheet_csv(dir, sheet.sheet_file_path[1]) = <<>>
    THEN Some("No rows found for this sheet.")
    ELSE None

\* an export that takes the csv files away instead of only reading them
generate_sheet_xlsx_moving(sheet_id) ==
    /\ last' = Ret("generate_sheet_xlsx", <<sheet_id>>, "ERR", Some("Sheet not found."))
    /\ sheet_files' = EmptyDir
    /\ UNCHANGED <<files, store, nextId, ing, task, sheets, app, xml_files, downloads>>

xlsx_headers ==
    <<"Sheet ID", "File ID", "File Name", "Seller Name", "Invoice Number",
      "Invoice Date", "Seller Address", "Items (JSON)", "Raw Payload">>

\* the worksheet: the header row, then one row of nine strings per csv row
workbook(rows) == <<xlsx_headers>> \o [i \in 1..Len(rows) |-> serialize(rows[i])]

generate_sheet_xlsx(sheet_id) ==
    /\ IF \A s \in sheets : s.id # sheet_id
       THEN /\ last' = Ret("generate_sheet_xlsx", <<sheet_id>>, "ERR", Some("Sheet not found."))
            /\ UNCHANGED downloads
       ELSE LET sheet == CHOOSE s \in sheets : s.id = sheet_id
                error == sheet_export_error(sheet, sheet_files)
                rows == IF sheet.sheet_file_path = None THEN <<>>
                        ELSE read_sheet_csv(sheet_files, sheet.sheet_file_path[1])
                file_name == sanitize_file_name(sheet.sheet_name,
                                 <<"s", "h", "e", "e", "t", "-", ToString(sheet.id)>>)
                             \o <<".xlsx">>
            IN IF error # None
               THEN /\ last' = Ret("generate_sheet_xlsx", <<sheet_id>>, "ERR", error)
                    /\ UNCHANGED downloads
               ELSE /\ downloads' = fs_write(downloads, file_name, workbook(rows))
                    /\ last' = Ret("generate_sheet_xlsx", <<sheet_id>>, "OK",
                                   Some([path |-> file_name, rows |-> Len(rows)]))
    /\ UNCHANGED <<files, store, nextId, ing, task, sheets, sheet_files, app, xml_files>>

(***************************************************************************)
(* Initial state: empty database, empty storage directory, no caller       *)
(* inside a command.                                                       *)
(***************************************************************************)
Init ==
    /\ files = {}
    /\ store = EmptyDir
    /\ nextId = 1
    /\ ing = [p \in Procs |-> IdleIng]
    /\ task = {}
    /\ sheets = {}
    /\ sheet_files = EmptyDir
    /\ app = [p \in Procs |-> [pc |-> "idle"]]
    /\ xml_files = {}
    /\ downloads = EmptyDir
    /\ last = Ret("none", <<>>, "OK", None)

FileCommands ==
    \/ \E id \in FileIds, s \in FileStatus : update_file_status(id, s)
    \/ \E id \in FileIds, d \in Payloads : update_file_parsed_details(id, d)
    \/ \E ids \in SUBSET FileIds : delete_files(ids)
    \/ \E gone \in SUBSET DOMAIN store, dir_gone \in BOOLEAN :
          clear_processed_files(gone, dir_gone)

\* commands issued one after the other by the single-threaded caller
Next ==
    \/ \E n \in FileNames, b \in Buffers : import_data(n, b)
    \/ FileCommands

Spec == Init /\ [][Next]_vars

\* commands of several callers, interleaved at persist_buffer's three steps;
\* the other commands run between the steps with one representative argument
RaceCommands ==
    \/ \E id \in FileIds : update_file_status(id, "Processed")
    \/ \E id \in FileIds : update_file_parsed_details(id, "{inv1}")
    \/ \E ids \in SUBSET FileIds : delete_files(ids)
    \/ clear_processed_files(DOMAIN store, TRUE)

NextRace ==
    \/ \E p \in Procs, n \in FileNames, b \in Buffers : persist_buffer_lookup(p, n, b)
    \/ \E p \in Procs : persist_buffer_write(p)
    \/ \E p \in Procs : persist_buffer_insert(p)
    \/ RaceCommands

SpecRace == Init /\ [][NextRace]_vars

\* ingestion, the task table and the sweep
NextReclaim ==
    \/ \E n \in FileNames, b \in Buffers : import_data(n, b)
    \/ \E l \in TaskFileLists : CreateTask(l)
    \/ \E t \in 1..MaxTasks, s \in TaskStatus : SetTaskStatus(t, s)
    \/ \E gone \in SUBSET DOMAIN store, dir_gone \in BOOLEAN :
          clear_processed_files(gone, dir_gone)

SpecReclaim == Init /\ [][NextReclaim]_vars

\* the sheet commands issued one after the other
NextSheets ==
    \/ \E l \in SheetFileLists, n \in SheetNames : create_sheet_for_files(l, n)
    \/ \E d \in 1..MaxSheets, rows \in RowLists : append_sheet_rows(d, rows)

SpecSheets == Init /\ [][NextSheets]_vars

\* append_sheet_rows calls of several callers, interleaved at their two halves,
\* on sheets of one label and with one-row arguments
RaceSheetNames == {<<"Q", "1">>}

RaceRowLists ==
    {<<RowInput(Some("f1"), Some("acme"))>>, <<RowInput(Some("f1"), Some("zeta"))>>,
     <<RowInput(Some("f2"), Some("acme"))>>}

NextSheetsRace ==
    \/ \E l \in SheetFileLists, n \in RaceSheetNames : create_sheet_for_files(l, n)
    \/ \E p \in Procs, d \in 1..MaxSheets, rows \in RaceRowLists :
          append_sheet_rows_read(p, d, rows)
    \/ \E p \in Procs : append_sheet_rows_write(p)

SpecSheetsRace == Init /\ [][NextSheetsRace]_vars

\* ingestion, payloads, bulk delete, the sweep and the xml commands, one at a
\* time
NextXml ==
    \/ \E b \in Buffers : import_data(<<"scan">>, b)
    \/ \E id \in FileIds, d \in Payloads : update_file_parsed_details(id, d)
    \/ \E ids \in SUBSET FileIds : delete_files(ids)
    \/ clear_processed_files(DOMAIN store, TRUE)
    \/ \E l \in XmlIdLists, n \in XmlNames : create_xml_for_files(l, n)
    \/ \E x \in 1..MaxXml, l \in XmlIdLists : append_xml_file(x, l)
    \/ list_xml_files
    \/ \E x \in 1..MaxXml : generate_xml_file(x)

SpecXml == Init /\ [][NextXml]_vars

\* ingestion, the status commands of both command sets and the listing, one
\* at a time
NextStatus ==
    \/ \E b \in Buffers : import_data(<<"scan">>, b)
    \/ \E id \in FileIds, s \in FileStatus : update_file_status(id, s)
    \/ \E l \in BulkIdLists, s \in FileStatus, ok \in BOOLEAN : update_files_status(l, s, ok)
    \/ \E id \in FileIds, s \in StatusStrings : commands_update_file_status(id, s)
    \/ \E l \in BulkIdLists, s \in StatusStrings, ok \in BOOLEAN :
          commands_update_files_status(l, s, ok)
    \/ \E f \in {None} \cup {Some(s) : s \in StatusStrings} : list_files_paginated(f)

SpecStatus == Init /\ [][NextStatus]_vars

\* the sheet commands, the export and the sweep, one at a time
NextExport ==
    \/ \E l \in SheetFileLists, n \in RaceSheetNames : create_sheet_for_files(l, n)
    \/ \E d \in 1..MaxSheets, rows \in RaceRowLists \cup {<<>>} : append_sheet_rows(d, rows)
    \/ clear_processed_files(DOMAIN store, TRUE)
    \/ \E d \in 1..MaxSheets : generate_sheet_xlsx(d)

SpecExport == Init /\ [][NextExport]_vars

\* every kind of command, one at a time: ingestion, status, payload, bulk
\* delete, the sweep, one sheet with its appends and export, one xml_files row
\* with its export
FrameRowLists ==
    {<<>>, <<RowInput(Some("f1"), Some("acme"))>>, <<RowInput(Some("f2"), Some("acme"))>>}

NextFrame ==
    \/ \E b \in Buffers : import_data(<<"scan">>, b)
    \/ \E id \in FileIds : update_file_status(id, "Processed")
    \/ \E id \in FileIds : update_file_parsed_details(id, "{inv1}")
    \/ \E id \in FileIds : delete_files({id})
    \/ clear_processed_files(DOMAIN store, TRUE)
    \/ sheets = {} /\ create_sheet_for_files(<<"f1", "f2">>, <<"Q", "1">>)
    \/ \E rows \in FrameRowLists : append_sheet_rows(1, rows)
    \/ generate_sheet_xlsx(1)
    \/ xml_files = {} /\ create_xml_for_files(<<1, 2>>, <<"Q", "1">>)
    \/ generate_xml_file(1)

SpecFrame == Init /\ [][NextFrame]_vars

(***************************************************************************)
(* Vocabulary of the properties.                                           *)
(***************************************************************************)
Range(l) == {l[i] : i \in 1..Len(l)}

HasStored(id) == \E x \in DOMAIN store : x.id = id

HasRow(id) == \E r \in files : r.id = id

RowsOf(buffer) == {r \in files : r.hash_sha256 = blake3_hex(buffer)}

StoredCopies(buffer) == {x \in DOMAIN store : store[x] = buffer}

ActiveFileIds ==
    UNION {Range(t.files_associated) : t \in {u \in task : u.status # "Completed"}}

CompletedFileIds ==
    UNION {Range(t.files_associated) : t \in {u \in task : u.status = "Completed"}}

Reclaimable == CompletedFileIds \ ActiveFileIds

Sweep == \E gone \in SUBSET DOMAIN store, dir_gone \in BOOLEAN :
            clear_processed_files(gone, dir_gone)

\* the rows of a csv file whose file_id is the non-empty id f
RowsWithId(dir, path, f) ==
    {i \in 1..Len(read_sheet_csv(dir, path)) :
        read_sheet_csv(dir, path)[i].file_id = Some(f)}

RowFileIds == {"f1", "f2"}

(***************************************************************************)
(* C1: the sweep never deletes the stored file or the files row of a file  *)
(* listed by a task that is not Completed: every such id that had a stored *)
(* file and a row before clear_processed_files still has both after it.    *)
(***************************************************************************)
C1_SweepKeepsActiveFiles ==
    [][Sweep =>
         \A id \in ActiveFileIds :
            (HasStored(id) /\ HasRow(id)) => (HasStored(id)' /\ HasRow(id)')]_vars

(***************************************************************************)
(* C2: in every reachable state, under any interleaving of ingestion,      *)
(* status and payload updates, delete_files and the sweep, no two rows of  *)
(* files have the same hash_sha256.                                        *)
(***************************************************************************)
C2_HashUnique ==
    \A r1, r2 \in files : r1.hash_sha256 = r2.hash_sha256 => r1 = r2

\* an insert of an already present hash was attempted and refused, and the
\* refused caller's bytes are on disk beside the winner's
C2_Witness ==
    /\ last.op = "persist_buffer" /\ last.res = "ERR"
    /\ \E b \in Buffers : Cardinality(RowsOf(b)) = 1 /\ Cardinality(StoredCopies(b)) = 2

(***************************************************************************)
(* C3: when import_data of bytes b has just returned OK:id and the next    *)
(* command is import_data of the same bytes, that call returns             *)
(* DUPLICATE:id with the same id, and exactly one row and exactly one      *)
(* stored file hold b.                                                     *)
(***************************************************************************)
C3_SecondIngestIsDuplicate ==
    [][\A n \in FileNames, b \in Buffers :
         ( /\ last.op = "persist_buffer" /\ last.res = "OK"
           /\ \E r \in RowsOf(b) : last.val = Some(r.id)
           /\ import_data(n, b) )
         => ( /\ last'.res = "DUPLICATE"
              /\ last'.val = last.val
              /\ Cardinality(RowsOf(b)') = 1
              /\ Cardinality(StoredCopies(b)') = 1 )]_vars

\* a second import of stored bytes has answered DUPLICATE with the id of the
\* one row and the one stored copy of those bytes
C3_Witness ==
    /\ last.op = "persist_buffer" /\ last.res = "DUPLICATE"
    /\ \E b \in Buffers :
          /\ Cardinality(RowsOf(b)) = 1
          /\ Cardinality(StoredCopies(b)) = 1
          /\ \E r \in RowsOf(b) : last.val = Some(r.id) /\ r.stored_path \in StoredCopies(b)

(***************************************************************************)
(* C4: when two persist_buffer calls with the same bytes have both passed  *)
(* the duplicate lookup before either inserted, then once the later of the *)
(* two has finished exactly one row and exactly one stored file hold those *)
(* bytes.                                                                  *)
(***************************************************************************)
C4_RaceLeavesOneCopy ==
    [][\A p \in Procs, b \in Buffers :
         ( /\ persist_buffer_insert(p)
           /\ ing[p].buffer = b
           /\ RowsOf(b) # {}
           /\ \A q \in Procs \ {p} : ing[q].pc # "idle" => ing[q].buffer # b )
         => ( /\ Cardinality(RowsOf(b)') = 1
              /\ Cardinality(StoredCopies(b)') = 1 )]_vars

(***************************************************************************)
(* C5: when the INSERT of persist_buffer is refused because a row with the *)
(* same hash was inserted first, the call does not return an error: it     *)
(* returns DUPLICATE with the id of the row that won.                      *)
(***************************************************************************)
C5_LateDuplicateIsNotAnError ==
    [][\A p \in Procs :
         (persist_buffer_insert(p) /\ RowsOf(ing[p].buffer) # {})
         => ( /\ last'.res = "DUPLICATE"
              /\ \E r \in RowsOf(ing[p].buffer) : last'.val = Some(r.id) )]_vars

(***************************************************************************)
(* C6: import_data of bytes whose hash is already in files changes         *)
(* nothing: no file is written to the storage directory, no row is added,  *)
(* and every row (its id, file_name, stored_path, status, parsed_details)  *)
(* is as before, whatever name the duplicate was submitted under.          *)
(***************************************************************************)
C6_DuplicateChangesNothing ==
    [][\A n \in FileNames, b \in Buffers :
         (import_data(n, b) /\ RowsOf(b) # {})
         => (files' = files /\ store' = store /\ last'.res = "DUPLICATE")]_vars

\* a duplicate was submitted under another name than the one on the row, which
\* by then had a status and a payload of its own
C6_Witness ==
    /\ last.op = "persist_buffer" /\ last.res = "DUPLICATE"
    /\ \E r \in files :
          /\ last.val = Some(r.id)
          /\ r.file_name # last.name
          /\ r.status = "Processed"
          /\ r.parsed_details # None

(***************************************************************************)
(* C7: in every reachable state a sheet csv file holds at most one row per *)
(* non-empty file_id, whatever rows the append_sheet_rows calls were given *)
(* (one call may name the same file_id more than once).                    *)
(***************************************************************************)
C7_OneRowPerFileId ==
    \A path \in DOMAIN sheet_files, f \in RowFileIds :
        Cardinality(RowsWithId(sheet_files, path, f)) <= 1

C9_NoLostUpdate ==
    [][\A p \in Procs :
         append_sheet_rows_write(p)
         => LET before == read_sheet_csv(sheet_files, app[p].csv_path)
                after == read_sheet_csv(sheet_files', app[p].csv_path)
            IN \A i \in 1..Len(before) :
                  (before[i].file_id = None
                     \/ before[i].file_id[1] \notin dedupe_ids_of(app[p].rows))
                  => \E j \in 1..Len(after) : after[j] = before[i]]_vars

(***************************************************************************)
(* C10: after a sweep that returns Ok, with reclaimable = ids listed by    *)
(* Completed tasks minus ids listed by any other task: no reclaimable id   *)
(* has a stored file or a files row; every Completed task's                *)
(* files_associated is its previous list without the reclaimable ids, in   *)
(* order, and its file_count is the new length; tasks that are not         *)
(* Completed, and tasks listing no reclaimable id, are unchanged.          *)
(***************************************************************************)
C10_SweepReclaims ==
    [][(Sweep /\ last'.op = "clear_processed_files" /\ last'.res = "OK") =>
         LET keep(id) == id \notin Reclaimable IN
         /\ \A id \in Reclaimable : ~HasStored(id)' /\ ~HasRow(id)'
         /\ \A t \in task :
               t.status = "Completed" =>
                  \E u \in task' :
                     /\ u.id = t.id
                     /\ u.files_associated = SelectSeq(t.files_associated, keep)
                     /\ u.file_count = Len(u.files_associated)
         /\ \A t \in task :
               (t.status # "Completed" \/ Range(t.files_associated) \cap Reclaimable = {})
                  => t \in task']_vars

\* the ids a stored file_ids text holds: its tokens other than "[", "," and "]"
IdTokens(text) == {i \in 1..Len(text) : text[i] \notin {"[", ",", "]"}}

\* the files rows, with a payload, whose id the xml_files row xml_id lists
PayloadRowsOf(xml_id) ==
    {r \in files :
        /\ r.parsed_details # None
        /\ \E x \in xml_files :
              x.id = xml_id /\ \E i \in IdTokens(x.file_ids) : x.file_ids[i] = ToString(r.id)}

RECURSIVE PayloadLines(_)
PayloadLines(rows) ==
    IF rows = <<>> THEN <<>>
    ELSE <<Head(rows).parsed_details[1], "\n">> \o PayloadLines(Tail(rows))

(***************************************************************************)
(* C11: whenever list_xml_files has just returned, after any sequence of   *)
(* create_xml_for_files, append_xml_file, delete_files and sweeps, the     *)
(* file_count it reports for each xml_files row is the number of ids in    *)
(* that row's stored file_ids.                                             *)
(***************************************************************************)
C11_FileCountIsLength ==
    last.op = "list_xml_files" =>
        /\ Cardinality(last.val[1]) = Cardinality(xml_files)
        /\ \A x \in xml_files :
              \E row \in last.val[1] :
                 row.id = x.id /\ row.file_count = Cardinality(IdTokens(x.file_ids))

\* a listing that reports a row grown by an append beyond the longest list a
\* create can give, after a files row was deleted
C11_Witness ==
    /\ last.op = "list_xml_files"
    /\ \E row \in last.val[1] : row.file_count > MaxXmlIds
    /\ nextId > 1 /\ files = {}

(***************************************************************************)
(* C12: in every reachable state, whatever id lists create_xml_for_files   *)
(* and append_xml_file were given (lists repeating an id included), the    *)
(* file_ids of an xml_files row holds no id twice.                         *)
(***************************************************************************)
C12_NoRepeatedId ==
    \A x \in xml_files :
        \A i, j \in IdTokens(x.file_ids) : x.file_ids[i] = x.file_ids[j] => i = j

(***************************************************************************)
(* C20: generate_xml_file(x) fails exactly when no files row listed by the *)
(* xml_files row x has a payload; otherwise its content is the payloads of *)
(* the listed rows that have one, each once and followed by a newline, in  *)
(* some order, and nothing else (rows without payload and ids without a    *)
(* row add nothing), and its file_count is the number of those payloads.   *)
(***************************************************************************)
C20_ExportConcatenatesPayloads ==
    [][\A x \in 1..MaxXml :
         (last'.op = "generate_xml_file" /\ last'.name = <<x>> /\ generate_xml_file(x))
         => /\ last'.res = "ERR" <=> PayloadRowsOf(x) = {}
            /\ last'.res = "ERR" => last'.val # None /\ last'.val[1] # ""
            /\ last'.res = "OK" =>
                  /\ last'.val[1].file_count = Cardinality(PayloadRowsOf(x))
                  /\ \E o \in orderings(PayloadRowsOf(x)) :
                        last'.val[1].content = PayloadLines(o)]_vars

\* an export that returned one payload for a list of two different ids
C20_Witness ==
    /\ last.op = "generate_xml_file" /\ last.res = "OK"
    /\ last.val[1].file_count = 1
    /\ \E x \in xml_files :
          /\ last.name = <<x.id>>
          /\ Cardinality({x.file_ids[i] : i \in IdTokens(x.file_ids)}) = 2

(***************************************************************************)
(* C13: when clear_processed_files has returned Ok and runs again with no  *)
(* command in between that writes the storage directory or the tables, the *)
(* second run removes no stored file and no sheet file, deletes no files   *)
(* row, changes no task and no xml_files row, and returns the same         *)
(* <<total_bytes, file_count>> as the first.                               *)
(***************************************************************************)
C13_SweepIdempotent ==
    [][(last.op = "clear_processed_files" /\ last.res = "OK" /\ Sweep)
         => /\ store' = store /\ sheet_files' = sheet_files
            /\ files' = files /\ task' = task /\ xml_files' = xml_files
            /\ last'.res = "OK" /\ last'.val = last.val]_vars

\* a sweep has returned Ok with nothing left to count, after removing the
\* stored files of two rows
C13_Witness ==
    /\ last.op = "clear_processed_files" /\ last.res = "OK"
    /\ last.val = compute_storage_stats(EmptyDir)
    /\ Cardinality(files) = 2 /\ DOMAIN store = {}

(***************************************************************************)
(* C14: when the removal of one file fails during clear_processed_files,   *)
(* the removal of every other file is still attempted: after a sweep that  *)
(* returned Err, the only stored file still present is the one whose       *)
(* removal failed (removals that succeeded stay done).                     *)
(***************************************************************************)
C14_SweepGoesOnAfterFailure ==
    [][(Sweep /\ last'.op = "clear_processed_files" /\ last'.res = "ERR")
         => /\ \A x \in DOMAIN store' : last'.name = <<x>>
            /\ DOMAIN store' \subseteq DOMAIN store]_vars

\* the edges of the status life cycle
AllowedTransitions ==
    {<<"Unprocessed", "Processing">>, <<"Processing", "Processed">>,
     <<"Processing", "Failed">>, <<"Processed", "Processing">>}

(***************************************************************************)
(* C15: update_files_status(file_ids, status) is all or nothing: after the *)
(* call either it returned Ok and every files row whose id is in file_ids  *)
(* has the new status while every other row is as before, or it returned   *)
(* Err and no row was changed.                                             *)
(***************************************************************************)
C15_BulkUpdateAtomic ==
    [][\A l \in BulkIdLists, s \in FileStatus, ok \in BOOLEAN :
         ( /\ last'.op = "update_files_status" /\ last'.name = <<l, s>>
           /\ update_files_status(l, s, ok) )
         => \/ /\ last'.res = "OK"
               /\ Cardinality(files') = Cardinality(files)
               /\ \A r \in files :
                     IF r.id \in Range(l)
                     THEN \E r2 \in files' : r2.id = r.id /\ r2.status = s
                     ELSE r \in files'
            \/ /\ last'.res = "ERR"
               /\ files' = files]_vars

\* a bulk update of two rows has returned Ok and both rows have the status
C15_Witness ==
    /\ last.op = "update_files_status" /\ last.res = "OK"
    /\ Cardinality(Range(last.name[1])) = 2
    /\ \A id \in Range(last.name[1]) :
          \E r \in files : r.id = id /\ r.status = last.name[2] /\ r.status = "Failed"

(***************************************************************************)
(* C16: in every reachable state, after any sequence of imports and status *)
(* updates (single and bulk, of both command sets), a files row has a      *)
(* processed_at exactly when its status is Processed.                      *)
(***************************************************************************)
C16_ProcessedAtIffProcessed ==
    \A r \in files : r.processed_at # None <=> r.status = "Processed"

\* one row is Processed with its processed_at, another was moved on by a bulk
\* update and has none
C16_Witness ==
    /\ last.op = "update_files_status" /\ last.res = "OK"
    /\ \E r1, r2 \in files :
          /\ r1.status = "Processed" /\ r1.processed_at # None
          /\ r2.status = "Processing" /\ r2.processed_at = None
          /\ r2.id \in Range(last.name[1]) /\ r1.id \notin Range(last.name[1])

(***************************************************************************)
(* C17: the status of a files row changes only along Unprocessed ->        *)
(* Processing, Processing -> Processed, Processing -> Failed and           *)
(* Processed -> Processing: no step changes it along another edge.         *)
(***************************************************************************)
C17_OnlyAllowedTransitions ==
    [][\A r \in files, r2 \in files' :
         (r.id = r2.id /\ r.status # r2.status)
         => <<r.status, r2.status>> \in AllowedTransitions]_vars

(***************************************************************************)
(* C18: the status stored in a files row is always one of Unprocessed,     *)
(* Processing, Processed, Failed, and a listing that has just returned     *)
(* reports for every record the status its row stores (it never reports    *)
(* Unprocessed for a row that stores something else).                      *)
(***************************************************************************)
C18_StatusIsClosed ==
    /\ \A r \in files : r.status \in FileStatus
    /\ last.op = "list_files_paginated" =>
          \A rec \in last.val[1].files :
             \E r \in files : r.id = rec.id /\ r.status = rec.status

\* the sheet d has no csv file, or a csv file with no record after the header
NoSheetRows(d) ==
    \A s \in sheets :
        s.id = d =>
           \/ s.sheet_file_path = None
           \/ s.sheet_file_path[1] \notin DOMAIN sheet_files
           \/ Len(sheet_files[s.sheet_file_path[1]]) <= 1

(***************************************************************************)
(* C19: generate_sheet_xlsx on a sheet that has no csv file (none was ever *)
(* written, or it is gone) or whose csv file holds no row returns Err with *)
(* a non-empty message and writes nothing to the Downloads directory.      *)
(***************************************************************************)
C19_EmptyExportFails ==
    [][\A d \in 1..MaxSheets :
         ( /\ last'.op = "generate_sheet_xlsx" /\ last'.name = <<d>>
           /\ generate_sheet_xlsx(d)
           /\ NoSheetRows(d) )
         => /\ last'.res = "ERR"
            /\ last'.val # None /\ last'.val[1] # ""
            /\ downloads' = downloads]_vars

\* an export has failed for a sheet whose rows were written and then swept
\* away, leaving the workbook of an earlier export as it was
C19_Witness ==
    /\ last.op = "generate_sheet_xlsx" /\ last.res = "ERR"
    /\ \E s \in sheets :
          /\ last.name = <<s.id>>
          /\ s.sheet_file_path # None
          /\ s.sheet_file_path[1] \notin DOMAIN sheet_files
    /\ DOMAIN downloads # {}

(***************************************************************************)
(* C21: generate_sheet_xlsx and generate_xml_file only read their sources: *)
(* whether the call returns Ok or Err, every files row, every task and     *)
(* xml_files row, every stored file, every sheets row and every sheet csv  *)
(* file is as before it.                                                   *)
(***************************************************************************)
C21_ExportsReadOnly ==
    [][( \/ \E d \in 1..MaxSheets :
              /\ last'.op = "generate_sheet_xlsx" /\ last'.name = <<d>>
              /\ generate_sheet_xlsx(d)
         \/ \E x \in 1..MaxXml :
              /\ last'.op = "generate_xml_file" /\ last'.name = <<x>>
              /\ generate_xml_file(x) )
       => /\ files' = files /\ store' = store
          /\ task' = task /\ xml_files' = xml_files
          /\ sheets' = sheets /\ sheet_files' = sheet_files]_vars

\* the xml export has returned a payload after the sheet export had written a
\* workbook, with rows, stored files and a sheet csv file in place
C21_Witness ==
    /\ last.op = "generate_xml_file" /\ last.res = "OK"
    /\ DOMAIN downloads # {}
    /\ files # {} /\ DOMAIN store # {} /\ DOMAIN sheet_files # {}

(***************************************************************************)
(* C22: append_sheet_rows with an empty rows list returns Ok at once and   *)
(* changes nothing: no sheet csv file is created or rewritten and no       *)
(* sheets row (its sheet_file_path) is changed, whether or not the sheet   *)
(* exists and whether or not it has a csv file yet.                        *)
(***************************************************************************)
C22_EmptyAppendIsNoOp ==
    [][\A d \in 1..MaxSheets :
         ( /\ last'.op = "append_sheet_rows" /\ last'.name = <<d, <<>>>>
           /\ append_sheet_rows(d, <<>>) )
         => /\ last'.res = "OK"
            /\ sheet_files' = sheet_files
            /\ sheets' = sheets]_vars

\* an append of no rows has returned Ok for a sheet that has no stored path
\* and no csv file, beside a sheet that has both
C22_Witness ==
    /\ last.op = "append_sheet_rows" /\ last.res = "OK" /\ last.name[2] = <<>>
    /\ \E s \in sheets :
          /\ s.id = last.name[1]
          /\ s.sheet_file_path = None
          /\ csv_path_of(s) \notin DOMAIN sheet_files
    /\ \E s \in sheets : s.sheet_file_path # None /\ csv_path_of(s) \in DOMAIN sheet_files

(***************************************************************************)
(* C23: the sheet csv files change only through append_sheet_rows: a step  *)
(* of import_data, a status or payload update, delete_files, either        *)
(* export, a create command or the sweep leaves every csv file and its     *)
(* rows as they were.                                                      *)
(***************************************************************************)
C23_RowsChangeOnlyByAppend ==
    [][sheet_files' # sheet_files => last'.op = "append_sheet_rows"]_vars

(***************************************************************************)
(* C24: update_files_status with an empty id list, of file_operations.rs   *)
(* and of commands.rs, returns Ok and changes no files row (no status and  *)
(* no processed_at), whatever status it was given.                         *)
(***************************************************************************)
C24_EmptyBulkUpdateIsNoOp ==
    [][\A s \in StatusStrings, ok \in BOOLEAN :
         ( /\ last'.op \in {"update_files_status", "commands::update_files_status"}
           /\ last'.name = <<<<>>, s>>
           /\ \/ s \in FileStatus /\ update_files_status(<<>>, s, ok)
              \/ commands_update_files_status(<<>>, s, ok) )
         => /\ last'.res = "OK"
            /\ files' = files]_vars

\* a bulk update of no ids to Failed has returned Ok beside a row that is
\* Processed with its processed_at
C24_Witness ==
    /\ last.op = "update_files_status" /\ last.res = "OK"
    /\ last.name = <<<<>>, "Failed">>
    /\ \E r \in files : r.status = "Processed" /\ r.processed_at # None

\* the records of a csv file after its header
RecordsOf(dir, path) == IF path \in DOMAIN dir THEN Tail(dir[path]) ELSE <<>>

C26_SharedFileReclaimedLater ==
    [][(Sweep /\ last'.op = "clear_processed_files" /\ last'.res = "OK")
         => \A id \in FileIds :
               /\ (id \in CompletedFileIds \cap ActiveFileIds /\ HasStored(id) /\ HasRow(id))
                     => (HasStored(id)' /\ HasRow(id)')
               /\ (id \in Reclaimable /\ HasRow(id))
                     => (~HasStored(id)' /\ ~HasRow(id)')]_vars

(***************************************************************************)
(* C27: in every reachable state, after any sequence of imports, status    *)
(* and payload updates, delete_files and sweeps, the stored_path of every  *)
(* files row names a file present in the storage directory, and an import  *)
(* that has just answered DUPLICATE names a row whose bytes are stored.    *)
(***************************************************************************)
C27_StoredPathExists ==
    /\ \A r \in files : r.stored_path \in DOMAIN store
    /\ (last.op = "persist_buffer" /\ last.res = "DUPLICATE") =>
          \E r \in files : last.val = Some(r.id) /\ r.stored_path \in DOMAIN store

(***************************************************************************)
(* C28: two sheets with different ids never share a csv file, also when    *)
(* their names sanitize to the same file name: the stored paths of two     *)
(* sheets differ and every row of a sheet's csv file carries the id of     *)
(* that sheet, so an append to one sheet never drops, replaces or adds     *)
(* rows of another.                                                        *)
(***************************************************************************)
C28_SheetsHaveTheirOwnFile ==
    /\ \A s1, s2 \in sheets :
          (s1.id # s2.id /\ s1.sheet_file_path # None /\ s2.sheet_file_path # None)
             => s1.sheet_file_path # s2.sheet_file_path
    /\ \A s \in sheets :
          s.sheet_file_path # None =>
             LET rows == read_sheet_csv(sheet_files, s.sheet_file_path[1])
             IN \A i \in 1..Len(rows) : rows[i].sheet_id = s.id

(***************************************************************************)
(* C29: whenever no persist_buffer call is under way, after any sequence   *)
(* of ingestions and delete_files calls, ingestions whose INSERT was       *)
(* refused after the bytes were written included, every file of the        *)
(* storage directory is the stored_path of exactly one files row.          *)
(***************************************************************************)
C29_NoOrphanStoredFile ==
    (\A p \in Procs : ing[p].pc = "idle") =>
       \A x \in DOMAIN store : Cardinality({r \in files : r.stored_path = x}) = 1

(***************************************************************************)
(* C30: after delete_files(ids) has returned Ok no files row and no stored *)
(* file is left for any id of ids (ids without a row are passed over), and *)
(* no row holds the bytes of a deleted row; and an import_data of bytes    *)
(* that no row holds (the bytes of a deleted file, then) returns OK with   *)
(* an id no row and no stored file had, writes a new stored file holding   *)
(* the bytes and adds a row for it in status Unprocessed.                  *)
(***************************************************************************)
C30_DeleteThenReingest ==
    [][/\ \A ids \in SUBSET FileIds :
            (last'.op = "delete_files" /\ delete_files(ids))
            => /\ last'.res = "OK"
               /\ \A id \in ids : ~HasRow(id)' /\ ~HasStored(id)'
               /\ \A r \in files :
                     r.id \in ids => check_duplicate(files', r.hash_sha256) = {}
               /\ \A r \in files : r.id \notin ids => r \in files'
       /\ \A n \in FileNames, b \in Buffers :
            ( /\ last'.op = "persist_buffer" /\ last'.name = n
              /\ RowsOf(b) = {}
              /\ import_data(n, b) )
            => /\ last'.res = "OK"
               /\ \E r \in files' :
                     /\ last'.val = Some(r.id)
                     /\ ~HasRow(r.id) /\ ~HasStored(r.id)
                     /\ r.hash_sha256 = blake3_hex(b)
                     /\ r.status = "Unprocessed"
                     /\ r.stored_path \in DOMAIN store' /\ store'[r.stored_path] = b
                     /\ files' = files \cup {r}]_vars

\* an import has returned the second id for bytes now held by the only row,
\* stored and Unprocessed, while the first id, which an earlier import had
\* given a row and a stored file, has neither: delete_files removed both
C30_Witness ==
    /\ last.op = "persist_buffer" /\ last.res = "OK" /\ last.val = Some(2)
    /\ ~HasRow(1) /\ ~HasStored(1)
    /\ \E r \in files :
          /\ files = {r} /\ r.id = 2 /\ r.status = "Unprocessed"
          /\ r.stored_path \in DOMAIN store
          /\ DOMAIN store = {r.stored_path}

====
